---- MODULE Spec2Model ----
(***************************************************************************)
(* A model of the manga-hilaw backend: the comment handlers (getComments,  *)
(* addComment, deleteComment), the bookmark handlers (getBookmarks,        *)
(* addBookmark, updateBookmark, updateReadingProgress, updateReadingStatus,*)
(* removeBookmark, checkBookmark), the profile handlers updateProfile and  *)
(* uploadProfileImage, register and login, and the application's routing   *)
(* with protect and the error middleware, running as concurrent requests   *)
(* against the hosted services. Every await of a store call that is        *)
(* followed by a write is a point where another request may run.           *)
(***************************************************************************)
EXTENDS Integers, Sequences, FiniteSets, TLC

\* ------------------------------------------------------------------ bounds
MaxComments == 3        \* comment ids the store may hand out
MaxClock == 2           \* last tick of the store's clock
MaxReq == 2             \* requests in flight at once
MaxBookmarks == 2       \* bookmark ids the store may hand out
MaxThread == 2          \* comment ids handed out while requests of every kind run

\* ------------------------------------------------- values of the program
Users == {"u1", "u2"}
Mangas == {"m1", "m2"}
ChapterHids == {"h1"}
CommentIds == 1..MaxComments
Slots == 1..MaxReq

\* parent_id of a top-level comment: null/undefined, falsy in `if (comment.parent_id)`
NoParent == 0

\* created_at is a timestamp string assigned by the store; Date keeps whole
\* milliseconds of it. A tick is the store's resolution; TicksPerMs ticks
\* fall into one millisecond.
TicksPerMs == 2

\* null in a column or in a JSON value
Null == "null"

\* the longest content the route accepts
ContentMax == 1000

VARIABLES
    comments,     \* the comments table: a set of rows
    profiles,     \* the profiles table: a set of rows, at most one per user
    nextId,       \* the next comment id the store hands out (ids are never reused)
    clock,        \* the store's clock, in ticks
    inflight,     \* per request slot: the handler suspended at an await
    response,     \* the response sent by the last step (or none)
    bookmarks,    \* the bookmarks table: a set of rows
    nextBookmarkId \* the next bookmark id the store hands out

vars == <<comments, profiles, nextId, clock, inflight, response, bookmarks, nextBookmarkId>>

bookmarkVars == <<bookmarks, nextBookmarkId>>

Idle == [op |-> "none", pc |-> "idle", user_id |-> "-", manga_id |-> "-",
         chapter_hid |-> "-", ref |-> NoParent]

\* the JSON body of a response that was not sent
NoBody == [sent |-> FALSE]

\* a request line: the method, the prefix a router may be mounted on, and
\* the rest of the path
Line(method, mount, path) == [method |-> method, mount |-> mount, path |-> path]

NoRequest == Line("-", "-", "-")

NoResponse == [op |-> "none", slot |-> 0, status |-> 0, user_id |-> "-", ref |-> NoParent,
               manga_id |-> "-", chapter_hid |-> "-", storeOk |-> TRUE,
               fetched |-> <<>>, data |-> <<>>, payload |-> <<>>, body |-> NoBody,
               authors |-> <<>>, request |-> NoRequest, credential |-> "-"]

\* what a step sends: the handler, its slot, the HTTP status, the caller, the
\* comment id the request names, and whether the step's store call succeeded
Respond(o, s, st, u, r, ok) ==
    [NoResponse EXCEPT !.op = o, !.slot = s, !.status = st, !.user_id = u, !.ref = r,
                       !.storeOk = ok]

\* ------------------------------------------------- responses and errors
\* the message a failed call of the hosted service carries in error.message
ProviderMessage == "<error.message of the hosted service>"

\* a JSON value that is a string where the envelope has an object, and the
\* object of the envelope
JsonString(str) == [type |-> "string", value |-> str]

JsonObject(fields) == [f \in DOMAIN fields \cup {"type"} |->
                         IF f = "type" THEN "object" ELSE fields[f]]

\* new AppError(message, statusCode) and new AppError(message, statusCode, errors)
AppError(message, statusCode) ==
    [name |-> "Error", message |-> message, statusCode |-> statusCode]

AppErrorWith(message, statusCode, errors) ==
    [name |-> "Error", message |-> message, statusCode |-> statusCode, errors |-> errors]

\* errors.array() of a failed validation
ValidationErrors == "errors.array()"

\* res.status(status).json(body)
json(status, body) == [status |-> status, body |-> body]

\* the error middleware: the status and message of the error, replaced for
\* the three error names it knows; the message goes inside the error object,
\* with the field errors when the error has them (the stack is added in
\* development only)
errorHandler(err) ==
    LET statusCode == IF "statusCode" \in DOMAIN err THEN err.statusCode ELSE 500
        message == IF err.message # "" THEN err.message ELSE "Something went wrong"
        named ==
          CASE err.name = "ValidationError" ->
                 [statusCode |-> 400, message |-> "Validation Error"]
            [] err.name = "JsonWebTokenError" ->
                 [statusCode |-> 401, message |-> "Invalid token. Please log in again."]
            [] err.name = "TokenExpiredError" ->
                 [statusCode |-> 401, message |-> "Your token has expired. Please log in again."]
            [] OTHER -> [statusCode |-> statusCode, message |-> message]
        error == IF "errors" \in DOMAIN err
                 THEN [message |-> named.message, errors |-> err.errors]
                 ELSE [message |-> named.message]
    IN json(named.statusCode, [success |-> FALSE, error |-> JsonObject(error)])

\* next(err) with the error dropped: nothing is sent
nextIgnored(err) == json(0, NoBody)

\* next(err): Express hands the error to the error middleware, which sends
\* the response
next(err) == errorHandler(err)

\* the response r with the status and body that were sent
Sent(r, out) == [r EXCEPT !.status = out.status, !.body = out.body]

\* a new request is handled in the first slot that holds no handler
FreeSlot(s) == inflight[s] = Idle /\ \A o \in Slots : o < s => inflight[o] # Idle

\* ------------------------------------------------------ the store (comments)
RowById(id) == {c \in comments : c.id = id}

\* a content string: lead whitespace characters, then core characters that
\* begin and end with a character that is not whitespace, then trail
\* whitespace characters (a string of whitespace only has core 0)
Content(lead, core, trail) == [lead |-> lead, core |-> core, trail |-> trail]

\* String.prototype.trim and the validator's trim(): the whitespace at both
\* ends is removed
trim(c) == IF c.core = 0 THEN Content(0, 0, 0) ELSE Content(0, c.core, 0)

length(c) == c.lead + c.core + c.trail

\* the profile rows of user u
ProfileOf(u) == {q \in profiles : q.id = u}

\* profile?.username || "Anonymous" and profile?.avatar_url || null, for the
\* rows ps a profile lookup gave (none or one)
displayFields(ps) ==
    IF ps = {} THEN [username |-> "Anonymous", avatar_url |-> Null]
    ELSE LET profile == CHOOSE q \in ps : TRUE
         IN [username |-> IF profile.username \in {Null, ""} THEN "Anonymous"
                          ELSE profile.username,
             avatar_url |-> IF profile.avatar_url \in {Null, ""} THEN Null
                            ELSE profile.avatar_url]

\* new Date(created_at).getTime(): the timestamp in whole milliseconds
getTime(t) == t \div TicksPerMs

\* .eq("manga_id").eq("chapter_hid").order("created_at", {ascending: false}):
\* every order of the chapter's rows that is descending in created_at (the
\* store breaks ties as it likes)
FetchOrders(m, h) ==
    LET rows == {c \in comments : c.manga_id = m /\ c.chapter_hid = h}
        n == Cardinality(rows)
    IN {f \in [1..n -> rows] :
          /\ \A i, j \in 1..n : i # j => f[i] # f[j]
          /\ \A i, j \in 1..n : i < j => f[i].created_at >= f[j].created_at}

\* ------------------------------------------- getComments: thread assembly
\* forEach: a comment without parent_id is pushed onto topLevelComments, in
\* the order of the fetched rows
topLevelCommentsAll(f) == f

topLevelCommentsReversed(f) ==
    LET keep(c) == c.parent_id = NoParent
        t == SelectSeq(f, keep)
    IN [i \in 1..Len(t) |-> t[Len(t) + 1 - i]]

topLevelComments(f) ==
    LET keep(c) == c.parent_id = NoParent
    IN SelectSeq(f, keep)

\* whether comment c of the rows f lies below the comment with id a
RECURSIVE Below(_, _, _)
Below(f, c, a) ==
    /\ c.parent_id # NoParent
    /\ \/ c.parent_id = a
       \/ \E k \in DOMAIN f : f[k].id = c.parent_id /\ Below(f, f[k], a)

repliesMapFlattened(f, id) ==
    LET keep(c) == Below(f, c, id)
    IN SelectSeq(f, keep)

repliesMapKeyedById(f, id) ==
    LET keep(c) == c.parent_id # NoParent /\ c.id = id
    IN SelectSeq(f, keep)

\* forEach: a comment with parent_id is pushed onto repliesMap[parent_id];
\* later repliesMap.get(id) || []
repliesMap(f, id) ==
    LET keep(c) == c.parent_id # NoParent /\ c.parent_id = id
    IN SelectSeq(f, keep)

\* (a, b) => new Date(a.created_at).getTime() - new Date(b.created_at).getTime()
compareCreatedAt(a, b) == getTime(a.created_at) - getTime(b.created_at)

\* Array.prototype.sort is a stable sort: an element moves in front of
\* exactly the elements that compare greater than it
RECURSIVE insertReply(_, _)
insertReply(sorted, x) ==
    IF sorted = <<>> THEN <<x>>
    ELSE LET n == Len(sorted) IN
         IF compareCreatedAt(sorted[n], x) > 0
         THEN Append(insertReply(SubSeq(sorted, 1, n - 1), x), sorted[n])
         ELSE Append(sorted, x)

RECURSIVE sortReplies(_)
sortReplies(s) ==
    IF s = <<>> THEN <<>>
    ELSE insertReply(sortReplies(SubSeq(s, 1, Len(s) - 1)), s[Len(s)])

\* topLevelComments.forEach(comment => { comment.replies = ...; sort })
withReplies(c, f) ==
    [id |-> c.id, user_id |-> c.user_id, manga_id |-> c.manga_id,
     chapter_hid |-> c.chapter_hid, parent_id |-> c.parent_id,
     created_at |-> c.created_at, content |-> c.content,
     replies |-> sortReplies(repliesMap(f, c.id))]

\* the top-level comments with their replies, in the order of topLevelComments
threadDataWithOrphans(f) ==
    LET keep(c) == c.parent_id = NoParent \/ \A k \in DOMAIN f : f[k].id # c.parent_id
        top == SelectSeq(f, keep)
    IN [i \in 1..Len(top) |-> withReplies(top[i], f)]

threadData(f) ==
    LET top == topLevelComments(f)
    IN [i \in 1..Len(top) |-> withReplies(top[i], f)]

\* transformedComments: username and avatar_url of every fetched comment,
\* from the profiles the second store call returned (.in("id", userIds))
transformedComments(f) ==
    [i \in DOMAIN f |->
       LET d == displayFields(ProfileOf(f[i].user_id))
       IN [id |-> f[i].id, user_id |-> f[i].user_id,
           username |-> d.username, avatar_url |-> d.avatar_url]]

\* the whole handler: it only reads, and what it sends is decided by the
\* rows the two store calls returned
GetComments(m, h, f, valid, fetchOk, profilesOk) ==
    /\ response' =
         LET r == [NoResponse EXCEPT !.op = "getComments", !.manga_id = m, !.chapter_hid = h]
             failed == [r EXCEPT !.storeOk = FALSE]
             ok == json(200, [success |-> TRUE])
         IN IF ~valid
            THEN Sent(r, next(AppErrorWith("Validation error", 400, ValidationErrors)))
            ELSE IF ~fetchOk
            THEN Sent(failed, next(AppError("Failed to fetch comments", 500)))
            ELSE IF Len(f) = 0 THEN Sent(r, ok)
            ELSE IF ~profilesOk
            THEN Sent(failed, next(AppError("Failed to fetch user profiles", 500)))
            ELSE Sent([r EXCEPT !.fetched = f, !.data = threadData(f),
                                !.authors = transformedComments(f)], ok)
    /\ UNCHANGED <<comments, profiles, nextId, clock, inflight, bookmarkVars>>

\* ------------------------------------------------------------- addComment
\* .insert({user_id, manga_id, chapter_hid, content, parent_id}): the store
\* assigns the id (never one it gave before) and created_at (its clock)
InsertCommentOverParent(u, m, h, p, t, content) ==
    /\ comments' = (comments \ RowById(p)) \cup
         {[id |-> IF p = NoParent THEN nextId ELSE p, user_id |-> u, manga_id |-> m,
           chapter_hid |-> h, parent_id |-> NoParent, created_at |-> t,
           content |-> content]}
    /\ nextId' = nextId + 1
    /\ clock' = t

InsertComment(u, m, h, p, t, content) ==
    /\ comments' = comments \cup
         {[id |-> nextId, user_id |-> u, manga_id |-> m, chapter_hid |-> h,
           parent_id |-> p, created_at |-> t, content |-> content]}
    /\ nextId' = nextId + 1
    /\ clock' = t

\* body("content").trim().isLength({min: 1, max: 1000}): the sanitizer puts
\* the trimmed string into the body, the check is made on it
validateContentUnchecked(c) == [content |-> trim(c), ok |-> TRUE]

validateContent(c) ==
    LET t == trim(c)
    IN [content |-> t, ok |-> length(t) >= 1 /\ length(t) <= ContentMax]

\* the parent lookup of addComment: .select("id").eq("id", parent_id).single()
parentFoundAlways(p, storeOk) == TRUE

parentFound(p, storeOk) == storeOk /\ RowById(p) # {}

\* the profile lookup after the insert, .select("username, avatar_url")
\* .eq("id", userId).single(): a failed call is logged and the handler goes
\* on without a profile
userProfile(u, profileOk) == IF profileOk THEN ProfileOf(u) ELSE {}

\* the insert call and everything after it (the profile lookup only reads)
AddCommentInsert(s, u, m, h, p, t, content, insertOk, profileOk) ==
    LET r == Respond("addComment", s, 0, u, p, insertOk) IN
    IF insertOk
    THEN /\ InsertComment(u, m, h, p, t, trim(content))
         /\ response' =
              LET d == displayFields(userProfile(u, profileOk))
              IN Sent([r EXCEPT !.manga_id = m, !.chapter_hid = h,
                                !.storeOk = profileOk,
                                !.authors = <<[id |-> nextId, user_id |-> u,
                                               username |-> d.username,
                                               avatar_url |-> d.avatar_url]>>],
                      json(201, [success |-> TRUE, message |-> "Comment added successfully"]))
    ELSE /\ response' = Sent(r, next(AppError("Failed to add comment", 500)))
         /\ UNCHANGED <<comments, nextId, clock>>

\* addComment requests suspended between the parent lookup and the insert
PendingInserts == Cardinality({s \in Slots : inflight[s].op = "addComment"})

\* from the start of the handler to its first await that suspends it: with
\* a parent_id the parent lookup, without one the insert. valid: the checks
\* of the route on the other fields passed.
AddCommentStart(s, u, m, h, p, t, content, valid, storeOk, profileOk) ==
    /\ FreeSlot(s)
    /\ UNCHANGED <<profiles, bookmarkVars>>
    /\ nextId + PendingInserts <= MaxComments
    /\ t >= clock
    /\ LET checked == validateContent(content) IN
       IF ~(valid /\ checked.ok)
       THEN /\ response' =
                 Sent(Respond("addComment", s, 0, u, p, TRUE),
                      next(AppErrorWith("Validation error", 400, ValidationErrors)))
            /\ UNCHANGED <<comments, nextId, clock, inflight>>
       ELSE IF p # NoParent
       THEN /\ UNCHANGED <<comments, nextId, clock>>
            /\ IF parentFound(p, storeOk)
               THEN /\ inflight' = [inflight EXCEPT ![s] =
                          [op |-> "addComment", pc |-> "insert", user_id |-> u,
                           manga_id |-> m, chapter_hid |-> h, ref |-> p,
                           content |-> checked.content]]
                    /\ response' = NoResponse
               ELSE /\ response' =
                         Sent(Respond("addComment", s, 0, u, p, storeOk),
                              next(AppError("Parent comment not found", 404)))
                    /\ UNCHANGED inflight
       ELSE /\ AddCommentInsert(s, u, m, h, p, t, checked.content, storeOk, profileOk)
            /\ UNCHANGED inflight

\* the handler resumes after the parent lookup
AddCommentResume(s, t, insertOk, profileOk) ==
    /\ inflight[s].op = "addComment" /\ inflight[s].pc = "insert"
    /\ t >= clock
    /\ UNCHANGED <<profiles, bookmarkVars>>
    /\ AddCommentInsert(s, inflight[s].user_id, inflight[s].manga_id,
                        inflight[s].chapter_hid, inflight[s].ref, t,
                        inflight[s].content, insertOk, profileOk)
    /\ inflight' = [inflight EXCEPT ![s] = Idle]

\* ---------------------------------------------------------- deleteComment
\* if (comment.user_id !== userId) -> 403
notAuthorNever(row, u) == FALSE

notAuthor(row, u) == row.user_id # u

\* validation, the lookup .select("user_id").eq("id", id).single(), the check
DeleteCommentStart(s, u, id, valid, storeOk) ==
    /\ FreeSlot(s)
    /\ UNCHANGED <<comments, profiles, nextId, clock, bookmarkVars>>
    /\ IF ~valid
       THEN /\ response' =
                 Sent(Respond("deleteComment", s, 0, u, id, TRUE),
                      next(AppErrorWith("Validation error", 400, ValidationErrors)))
            /\ UNCHANGED inflight
       ELSE IF ~storeOk \/ RowById(id) = {}
       THEN /\ response' =
                 Sent(Respond("deleteComment", s, 0, u, id, storeOk),
                      next(AppError("Comment not found", 404)))
            /\ UNCHANGED inflight
       ELSE IF \E row \in RowById(id) : notAuthor(row, u)
       THEN /\ response' =
                 Sent(Respond("deleteComment", s, 0, u, id, TRUE),
                      next(AppError("Not authorized to delete this comment", 403)))
            /\ UNCHANGED inflight
       ELSE /\ inflight' = [inflight EXCEPT ![s] =
                  [op |-> "deleteComment", pc |-> "delete", user_id |-> u,
                   manga_id |-> "-", chapter_hid |-> "-", ref |-> id]]
            /\ response' = NoResponse

\* the rows .delete().eq("id", id) removes: the row with that id, if there
\* is one (the replies that name it are rows of their own)
deleteWithReplies(id) == RowById(id) \cup {c \in comments : c.parent_id = id}

deleteEqId(id) == RowById(id)

\* the delete call and the answer
DeleteCommentResume(s, deleteOk) ==
    /\ inflight[s].op = "deleteComment" /\ inflight[s].pc = "delete"
    /\ inflight' = [inflight EXCEPT ![s] = Idle]
    /\ UNCHANGED <<profiles, nextId, clock, bookmarkVars>>
    /\ LET r == Respond("deleteComment", s, 0, inflight[s].user_id, inflight[s].ref, deleteOk) IN
       IF deleteOk
       THEN /\ comments' = comments \ deleteEqId(inflight[s].ref)
            /\ response' = Sent(r, json(200, [success |-> TRUE,
                                               message |-> "Comment deleted successfully"]))
       ELSE /\ UNCHANGED comments
            /\ response' = Sent(r, next(AppError("Failed to delete comment", 500)))

\* ------------------------------------------------------------ addBookmark
\* a field absent from the request body, or a value that is undefined
Undefined == "undefined"

Titles == {"t1", "t2"}

\* the request bodies that pass the route's validation
BookmarkBodies ==
    [manga_id : Mangas, manga_title : Titles,
     last_read_chapter : {Undefined, "c1"},
     reading_status : {Undefined, "reading"}]

\* getUsernameFromAuth: the username of the auth user, undefined when the
\* lookup fails or the user has none
UsernameOf(u) == "name-" \o u

\* bookmarkData as it is serialised into the upsert call: a property whose
\* value is undefined is not sent. reading_status defaults to 'plan_to_read';
\* last_read_at is the time of the request when last_read_chapter is given.
bookmarkData(u, username, body, now) ==
    LET sent == {"user_id", "manga_id", "manga_title", "reading_status"}
                \cup (IF username # Undefined THEN {"username"} ELSE {})
                \cup (IF body.last_read_chapter # Undefined
                      THEN {"last_read_chapter", "last_read_at"} ELSE {})
    IN [f \in sent |->
          CASE f = "user_id" -> u
            [] f = "username" -> username
            [] f = "manga_id" -> body.manga_id
            [] f = "manga_title" -> body.manga_title
            [] f = "last_read_chapter" -> body.last_read_chapter
            [] f = "reading_status" ->
                 IF body.reading_status = Undefined THEN "plan_to_read"
                 ELSE body.reading_status
            [] f = "last_read_at" -> now]

\* the rows of one (user, manga) pair
Pair(u, m) == {b \in bookmarks : b.user_id = u /\ b.manga_id = m}

\* the store writes the columns the call sends and leaves the others
Merge(row, data) ==
    [f \in DOMAIN row \cup DOMAIN data |-> IF f \in DOMAIN data THEN data[f] ELSE row[f]]

NewBookmark(data) == Merge([id |-> nextBookmarkId], data)

UpsertIgnoreDuplicates(data) ==
    LET old == Pair(data.user_id, data.manga_id) IN
    IF old # {}
    THEN UNCHANGED <<bookmarks, nextBookmarkId>>
    ELSE /\ bookmarks' = bookmarks \cup {NewBookmark(data)}
         /\ nextBookmarkId' = nextBookmarkId + 1

UpsertAsInsert(data) ==
    /\ bookmarks' = bookmarks \cup {NewBookmark(data)}
    /\ nextBookmarkId' = nextBookmarkId + 1

\* .upsert(bookmarkData, {onConflict: 'user_id,manga_id', ignoreDuplicates: false}):
\* one statement of the store; a row with the same (user_id, manga_id) is
\* updated with the columns sent, otherwise a row is inserted
Upsert(data) ==
    LET old == Pair(data.user_id, data.manga_id) IN
    IF old # {}
    THEN /\ bookmarks' = (bookmarks \ old) \cup {Merge(row, data) : row \in old}
         /\ UNCHANGED nextBookmarkId
    ELSE /\ bookmarks' = bookmarks \cup {NewBookmark(data)}
         /\ nextBookmarkId' = nextBookmarkId + 1

\* validation, then the call of getUsernameFromAuth, whose answer the
\* handler awaits
AddBookmarkStart(s, u, body, valid, username) ==
    /\ FreeSlot(s)
    /\ UNCHANGED <<comments, profiles, nextId, clock, bookmarkVars>>
    /\ IF ~valid
       THEN /\ response' =
                 Sent([Respond("addBookmark", s, 0, u, NoParent, TRUE)
                         EXCEPT !.manga_id = body.manga_id],
                      json(400, [success |-> FALSE, message |-> "Validation failed",
                                 errors |-> ValidationErrors]))
            /\ UNCHANGED inflight
       ELSE /\ inflight' = [inflight EXCEPT ![s] =
                  [op |-> "addBookmark", pc |-> "upsert", user_id |-> u,
                   manga_id |-> body.manga_id, chapter_hid |-> "-", ref |-> NoParent,
                   body |-> body, username |-> username]]
            /\ response' = NoResponse

\* the handler resumes with the username: it builds bookmarkData, makes the
\* one upsert call and answers
AddBookmarkResume(s, now, upsertOk) ==
    /\ inflight[s].op = "addBookmark" /\ inflight[s].pc = "upsert"
    /\ now >= clock
    /\ clock' = now
    /\ UNCHANGED <<comments, profiles, nextId>>
    /\ inflight' = [inflight EXCEPT ![s] = Idle]
    /\ LET data == bookmarkData(inflight[s].user_id, inflight[s].username,
                                inflight[s].body, now)
           r == [Respond("addBookmark", s, 0, inflight[s].user_id, NoParent, upsertOk)
                   EXCEPT !.manga_id = inflight[s].manga_id, !.payload = data]
       IN IF upsertOk
          THEN /\ Upsert(data)
               /\ response' = Sent(r, json(201, [success |-> TRUE,
                                                  message |-> "Bookmark added successfully"]))
          ELSE /\ UNCHANGED bookmarkVars
               /\ response' = Sent(r, json(400, [success |-> FALSE,
                                                  message |-> "Failed to add bookmark",
                                                  error |-> JsonString(ProviderMessage)]))

\* ------------------------------------------- updateProfile, uploadProfileImage
\* the usernames a client may ask for (they pass the route's checks)
Usernames == {"alice", "bob"}

\* req.user.email, and the public URL of the image the user uploaded
EmailOf(u) == u \o "@mail"

PublicUrl(u) == "profile-images/" \o u

\* a handler of the profile controller suspended before its write: the check
\* .select("id").eq("id", userId).single() found no row (pc create, the
\* answer PGRST116) or a row (pc update); write holds the columns it sends
ProfileWrite(o, u, write) ==
    [op |-> o, pc |-> IF ProfileOf(u) = {} THEN "create" ELSE "update",
     user_id |-> u, manga_id |-> "-", chapter_hid |-> "-", ref |-> NoParent,
     write |-> write]

\* updateProfile up to the answer of the check
UpdateProfileStart(s, u, username, valid, checkOk) ==
    /\ FreeSlot(s)
    /\ UNCHANGED <<comments, profiles, nextId, clock, bookmarkVars>>
    /\ LET r == Respond("updateProfile", s, 0, u, NoParent, checkOk) IN
       IF ~valid
       THEN /\ response' = Sent(r, next(AppErrorWith("Validation error", 400,
                                                             ValidationErrors)))
            /\ UNCHANGED inflight
       ELSE IF ~checkOk
       THEN /\ response' = Sent(r, next(AppError("Error checking profile", 500)))
            /\ UNCHANGED inflight
       ELSE /\ inflight' = [inflight EXCEPT ![s] =
                  ProfileWrite("updateProfile", u, [username |-> username])]
            /\ response' = NoResponse

\* uploadProfileImage up to the answer of the check: the file, the upload to
\* the object store, the public URL, the check. A profile it creates gets
\* the username req.user.username || req.user.email; the user protect
\* attaches has no username property.
UploadProfileImageStart(s, u, file, uploadOk, checkOk) ==
    /\ FreeSlot(s)
    /\ UNCHANGED <<comments, profiles, nextId, clock, bookmarkVars>>
    /\ LET r == Respond("uploadProfileImage", s, 0, u, NoParent, uploadOk /\ checkOk) IN
       IF ~file
       THEN /\ response' = Sent([r EXCEPT !.storeOk = TRUE],
                                next(AppError("No file uploaded", 400)))
            /\ UNCHANGED inflight
       ELSE IF ~uploadOk
       THEN /\ response' = Sent(r, next(AppError("Failed to upload image", 500)))
            /\ UNCHANGED inflight
       ELSE IF ~checkOk
       THEN /\ response' = Sent(r, next(AppError("Failed to check profile", 500)))
            /\ UNCHANGED inflight
       ELSE /\ inflight' = [inflight EXCEPT ![s] =
                  ProfileWrite("uploadProfileImage", u,
                               IF ProfileOf(u) = {}
                               THEN [username |-> EmailOf(u), avatar_url |-> PublicUrl(u)]
                               ELSE [avatar_url |-> PublicUrl(u)])]
            /\ response' = NoResponse

\* the write of either handler: .insert({id, ...}) of a new row, which the
\* store refuses when the user has a row by now (id is the primary key), or
\* .update({...}).eq("id", userId) of the columns sent; then the answer
ProfileWriteResume(s, writeOk) ==
    /\ inflight[s].op \in {"updateProfile", "uploadProfileImage"}
    /\ inflight' = [inflight EXCEPT ![s] = Idle]
    /\ UNCHANGED <<comments, nextId, clock, bookmarkVars>>
    /\ LET h == inflight[s]
           u == h.user_id
           created == h.pc = "create"
           done == writeOk /\ (created => ProfileOf(u) = {})
           r == Respond(h.op, s, 0, u, NoParent, done)
           new == [f \in {"id", "username", "avatar_url"} |->
                     IF f = "id" THEN u
                     ELSE IF f \in DOMAIN h.write THEN h.write[f] ELSE Null]
       IN IF done
          THEN /\ profiles' = IF created THEN profiles \cup {new}
                              ELSE {IF q.id = u
                                    THEN [f \in DOMAIN q |->
                                            IF f \in DOMAIN h.write THEN h.write[f] ELSE q[f]]
                                    ELSE q : q \in profiles}
               /\ response' =
                    Sent(r, json(200, [success |-> TRUE,
                                       message |-> IF h.op = "updateProfile"
                                                   THEN "Profile updated successfully"
                                                   ELSE "Profile image uploaded successfully"]))
          ELSE /\ UNCHANGED profiles
               /\ response' =
                    Sent(r, next(AppError(
                       CASE h.op = "updateProfile" /\ created -> "Error creating profile"
                         [] h.op = "updateProfile" /\ ~created -> "Error updating profile"
                         [] h.op # "updateProfile" /\ created -> "Failed to create profile"
                         [] OTHER -> "Failed to update profile", 500)))

\* -------------------------------------------------------- register, login
\* what the auth provider answers to signInWithPassword and to signUp: the
\* session or user, or an error with the provider's reason; "unavailable"
\* is a call that failed, the other reasons are a request it refused
LoginAnswers == {"ok", "invalid_credentials", "email_not_confirmed", "unavailable"}

RegisterAnswers == {"ok", "user_already_exists", "unavailable"}

\* the error login passes on when the provider answers with an error
loginErrorWithReason(answer) == AppError(ProviderMessage, 400)

loginError(answer) == AppError("Invalid credentials", 401)

\* login: the checks of the route, one call of signInWithPassword, the answer
Login(u, valid, answer) ==
    /\ UNCHANGED <<comments, profiles, nextId, clock, inflight, bookmarkVars>>
    /\ response' =
         LET r == Respond("login", 0, 0, u, NoParent, answer # "unavailable") IN
         IF ~valid
         THEN Sent([r EXCEPT !.storeOk = TRUE],
                   next(AppErrorWith("Validation error", 400, ValidationErrors)))
         ELSE IF answer # "ok"
         THEN Sent([r EXCEPT !.payload = <<answer>>], next(loginError(answer)))
         ELSE Sent(r, json(200, [success |-> TRUE, message |-> "Login successful",
                                 data |-> [user |-> u, session |-> "session of " \o u]]))

\* register: the checks of the route, one call of signUp, the answer
Register(u, valid, answer) ==
    /\ UNCHANGED <<comments, profiles, nextId, clock, inflight, bookmarkVars>>
    /\ response' =
         LET r == Respond("register", 0, 0, u, NoParent, answer # "unavailable") IN
         IF ~valid
         THEN Sent([r EXCEPT !.storeOk = TRUE],
                   next(AppErrorWith("Validation error", 400, ValidationErrors)))
         ELSE IF answer # "ok"
         THEN Sent([r EXCEPT !.payload = <<answer>>],
                   next(AppError(ProviderMessage, 400)))
         ELSE Sent(r, json(201, [success |-> TRUE,
                 message |-> "Registration successful. Please check your email for verification.",
                 data |-> [user |-> u]]))

\* ------------------------------------------------------------ getBookmarks
\* one select of the user's rows; the handler only reads
GetBookmarks(u, fetchOk) ==
    /\ UNCHANGED <<comments, profiles, nextId, clock, inflight, bookmarkVars>>
    /\ response' =
         LET r == Respond("getBookmarks", 0, 0, u, NoParent, fetchOk) IN
         IF u = "-"
         THEN Sent([r EXCEPT !.storeOk = TRUE],
                   json(401, [success |-> FALSE, message |-> "User not authenticated"]))
         ELSE IF ~fetchOk
         THEN Sent(r, json(400, [success |-> FALSE, message |-> "Failed to fetch bookmarks",
                                 error |-> JsonString(ProviderMessage)]))
         ELSE Sent([r EXCEPT !.payload = <<{b \in bookmarks : b.user_id = u}>>],
                   json(200, [success |-> TRUE]))

\* ------------- updateBookmark, updateReadingProgress, updateReadingStatus
\* the ids a request may name in /:id
BookmarkIds == 1..MaxBookmarks

\* const validStatuses = [...]
validStatuses == {"plan_to_read", "reading", "on_hold", "dropped", "completed"}

\* the rows a call filtered by .eq('id', id).eq('user_id', req.user.id) matches
OwnedByAnyone(id, u) == {b \in bookmarks : b.id = id}

Owned(id, u) == {b \in bookmarks : b.id = id /\ b.user_id = u}

\* .single(): the answer of the store to a request of one row. One matching
\* row is the data; no row (or several) is the error with code PGRST116; a
\* call that failed is an error with another code
single(rows, storeOk) ==
    IF ~storeOk THEN [data |-> {}, error |-> "other"]
    ELSE IF Cardinality(rows) = 1 THEN [data |-> rows, error |-> "none"]
    ELSE [data |-> {}, error |-> "PGRST116"]

\* the response r of a handler that answered before it called the store
NoCall(r) == [r EXCEPT !.payload = <<>>, !.storeOk = TRUE]

\* the flat bodies the bookmark handlers send
notAuthenticated == json(401, [success |-> FALSE, message |-> "User not authenticated"])

validationFailed ==
    json(400, [success |-> FALSE, message |-> "Validation failed", errors |-> ValidationErrors])

failed(message) ==
    json(400, [success |-> FALSE, message |-> message, error |-> JsonString(ProviderMessage)])

bookmarkNotFound == json(404, [success |-> FALSE, message |-> "Bookmark not found"])

\* updateData of the three handlers: a property that is undefined is not sent
updateData(o, fields, now) ==
    IF o = "updateReadingStatus" THEN [reading_status |-> fields.reading_status]
    ELSE IF fields.last_read_chapter = Undefined THEN [last_read_at |-> now]
    ELSE [last_read_chapter |-> fields.last_read_chapter, last_read_at |-> now]

\* what each of the three handlers says when its call failed, and when it
\* succeeded
UpdateMessages(o) ==
    CASE o = "updateBookmark" ->
           [failed |-> "Failed to update bookmark", ok |-> "Bookmark updated successfully"]
      [] o = "updateReadingProgress" ->
           [failed |-> "Failed to update reading progress",
            ok |-> "Reading progress updated successfully"]
      [] o = "updateReadingStatus" ->
           [failed |-> "Failed to update reading status",
            ok |-> "Reading status updated successfully"]

\* one of the three handlers o, from its start to the answer: the checks,
\* then the one call .update(updateData).eq('id', id).eq('user_id', user.id)
\* .select().single(), which writes the rows it matches and answers with
\* the row or with an error
UpdateBookmarkRow(o, u, id, fields, now, valid, storeOk) ==
    /\ now >= clock
    /\ UNCHANGED <<comments, profiles, nextId, inflight, nextBookmarkId>>
    /\ LET matched == Owned(id, u)
           answer == single(matched, storeOk)
           data == updateData(o, fields, now)
           r == [Respond(o, 0, 0, u, id, storeOk)
                   EXCEPT !.payload = [error |-> answer.error, matched |-> matched]]
       IN IF u = "-"
          THEN /\ response' = Sent(NoCall(r), notAuthenticated)
               /\ UNCHANGED <<bookmarks, clock>>
          ELSE IF ~valid
          THEN /\ response' = Sent(NoCall(r), validationFailed)
               /\ UNCHANGED <<bookmarks, clock>>
          ELSE IF o = "updateReadingStatus" /\ fields.reading_status \notin validStatuses
          THEN /\ response' = Sent(NoCall(r), json(400, [success |-> FALSE,
                                                         message |-> "Invalid reading status"]))
               /\ UNCHANGED <<bookmarks, clock>>
          ELSE /\ clock' = now
               /\ bookmarks' = IF storeOk
                               THEN (bookmarks \ matched) \cup {Merge(row, data) : row \in matched}
                               ELSE bookmarks
               /\ response' =
                    IF answer.error # "none" THEN Sent(r, failed(UpdateMessages(o).failed))
                    ELSE IF answer.data = {} THEN Sent(r, bookmarkNotFound)
                    ELSE Sent(r, json(200, [success |-> TRUE,
                                            message |-> UpdateMessages(o).ok]))

\* ---------------------------------------------------------- removeBookmark
\* the checks and the lookup .select('id').eq('id', id).eq('user_id', user.id)
\* .single(): an error of any code, or no row, is answered 404
RemoveBookmarkStart(s, u, id, valid, storeOk) ==
    /\ FreeSlot(s)
    /\ UNCHANGED <<comments, profiles, nextId, clock, bookmarkVars>>
    /\ LET answer == single(Owned(id, u), storeOk)
           r == [Respond("removeBookmark", s, 0, u, id, storeOk)
                   EXCEPT !.payload = [error |-> answer.error, matched |-> Owned(id, u)]]
       IN IF u = "-"
          THEN /\ response' = Sent(NoCall(r), notAuthenticated)
               /\ UNCHANGED inflight
          ELSE IF ~valid
          THEN /\ response' = Sent(NoCall(r), validationFailed)
               /\ UNCHANGED inflight
          ELSE IF answer.error # "none" \/ answer.data = {}
          THEN /\ response' = Sent(r, bookmarkNotFound)
               /\ UNCHANGED inflight
          ELSE /\ inflight' = [inflight EXCEPT ![s] =
                     [op |-> "removeBookmark", pc |-> "delete", user_id |-> u,
                      manga_id |-> "-", chapter_hid |-> "-", ref |-> id]]
               /\ response' = NoResponse

\* .delete().eq('id', id).eq('user_id', user.id): removes the rows it
\* matches; a call that matches no row is not an error
RemoveBookmarkResume(s, deleteOk) ==
    /\ inflight[s].op = "removeBookmark" /\ inflight[s].pc = "delete"
    /\ inflight' = [inflight EXCEPT ![s] = Idle]
    /\ UNCHANGED <<comments, profiles, nextId, clock, nextBookmarkId>>
    /\ LET matched == Owned(inflight[s].ref, inflight[s].user_id)
           r == [Respond("removeBookmark", s, 0, inflight[s].user_id, inflight[s].ref, deleteOk)
                   EXCEPT !.payload = [error |-> IF deleteOk THEN "none" ELSE "other",
                                       matched |-> matched]]
       IN IF deleteOk
          THEN /\ bookmarks' = bookmarks \ matched
               /\ response' = Sent(r, json(200, [success |-> TRUE,
                                                 message |-> "Bookmark removed successfully"]))
          ELSE /\ UNCHANGED bookmarks
               /\ response' = Sent(r, failed("Failed to remove bookmark"))

\* ----------------------------------------------------------- checkBookmark
\* null in a JSON value that is an object otherwise
JsonNull == [type |-> "null"]

\* if (error && error.code !== 'PGRST116')
isTrueErrorAnyCode(error) == error # "none"

isTrueError(error) == error # "none" /\ error # "PGRST116"

\* .select('id, last_read_chapter, last_read_at')
checkColumns(row) ==
    [f \in {"id", "last_read_chapter", "last_read_at"} |->
       IF f \in DOMAIN row THEN row[f] ELSE Null]

\* the whole handler: the checks, one select of the caller's row for the
\* manga, the answer; it only reads
CheckBookmark(u, m, valid, storeOk) ==
    /\ UNCHANGED <<comments, profiles, nextId, clock, inflight, bookmarkVars>>
    /\ response' =
         LET answer == single(Pair(u, m), storeOk)
             r == [Respond("checkBookmark", 0, 0, u, NoParent, storeOk)
                     EXCEPT !.manga_id = m,
                            !.payload = [error |-> answer.error, matched |-> Pair(u, m)]]
         IN IF u = "-" THEN Sent(NoCall(r), notAuthenticated)
            ELSE IF ~valid THEN Sent(NoCall(r), validationFailed)
            ELSE IF isTrueError(answer.error)
            THEN Sent(r, failed("Failed to check bookmark status"))
            ELSE Sent(r, json(200,
                   [success |-> TRUE,
                    isBookmarked |-> answer.data # {},
                    bookmarkData |-> IF answer.data # {}
                                     THEN JsonObject(checkColumns(CHOOSE b \in answer.data : TRUE))
                                     ELSE JsonNull]))

\* ------------------------------------------------------------ the application
\* the prefixes on which app.use mounts a router, in order
Mounts == {"/api/auth", "/api/users", "/api/profile", "/api/bookmarks"}

\* the routers that begin with router.use(protect)
ProtectedRouters == {"/api/users", "/api/profile", "/api/bookmarks"}

\* the routes of the routers: the controller, and whether protect is one of
\* the route's own middlewares. The comments router is defined like the
\* others; the application mounts it nowhere.
Routes ==
    { [line |-> Line("POST", "/api/auth", "/register"), protect |-> FALSE, controller |-> "register"],
      [line |-> Line("POST", "/api/auth", "/login"), protect |-> FALSE, controller |-> "login"],
      [line |-> Line("POST", "/api/auth", "/logout"), protect |-> TRUE, controller |-> "logout"],
      [line |-> Line("GET", "/api/auth", "/me"), protect |-> TRUE, controller |-> "getCurrentUser"],
      [line |-> Line("GET", "/api/users", "/profile"), protect |-> FALSE,
       controller |-> "user.getProfile"],
      [line |-> Line("PUT", "/api/users", "/profile"), protect |-> FALSE,
       controller |-> "user.updateProfile"],
      [line |-> Line("PUT", "/api/users", "/change-password"), protect |-> FALSE,
       controller |-> "user.changePassword"],
      [line |-> Line("GET", "/api/profile", "/"), protect |-> FALSE, controller |-> "getProfile"],
      [line |-> Line("PUT", "/api/profile", "/"), protect |-> FALSE, controller |-> "updateProfile"],
      [line |-> Line("POST", "/api/profile", "/upload-image"), protect |-> FALSE,
       controller |-> "uploadProfileImage"],
      [line |-> Line("DELETE", "/api/profile", "/delete-image"), protect |-> FALSE,
       controller |-> "deleteProfileImage"],
      [line |-> Line("GET", "/api/bookmarks", "/"), protect |-> FALSE, controller |-> "getBookmarks"],
      [line |-> Line("POST", "/api/bookmarks", "/"), protect |-> FALSE, controller |-> "addBookmark"],
      [line |-> Line("PUT", "/api/bookmarks", "/:id"), protect |-> FALSE,
       controller |-> "updateBookmark"],
      [line |-> Line("PUT", "/api/bookmarks", "/:id/progress"), protect |-> FALSE,
       controller |-> "updateReadingProgress"],
      [line |-> Line("PUT", "/api/bookmarks", "/:id/status"), protect |-> FALSE,
       controller |-> "updateReadingStatus"],
      [line |-> Line("DELETE", "/api/bookmarks", "/:id"), protect |-> FALSE,
       controller |-> "removeBookmark"],
      [line |-> Line("GET", "/api/bookmarks", "/check/:manga_id"), protect |-> FALSE,
       controller |-> "checkBookmark"],
      [line |-> Line("GET", "/api/comments", "/manga/:manga_id/chapter/:chapter_hid"),
       protect |-> FALSE, controller |-> "getComments"],
      [line |-> Line("POST", "/api/comments", "/"), protect |-> TRUE, controller |-> "addComment"],
      [line |-> Line("DELETE", "/api/comments", "/:id"), protect |-> TRUE,
       controller |-> "deleteComment"] }

\* the Authorization header: none, a bearer token the auth provider does not
\* know, or the token of a user
TokenOf(u) == "Bearer token of " \o u

\* protect: the bearer token, one call of supabase.auth.getUser(token); the
\* user to attach, or the error passed to next
protect(credential, getUserOk) ==
    IF credential = "none"
    THEN [err |-> AppError("You are not logged in! Please log in to get access.", 401)]
    ELSE IF ~getUserOk \/ credential \notin {TokenOf(u) : u \in Users}
    THEN [err |-> AppError("The user belonging to this token no longer exists.", 401)]
    ELSE [user |-> CHOOSE u \in Users : TokenOf(u) = credential]

\* notFoundHandler
notFoundHandler(line) ==
    AppError("Cannot find " \o line.mount \o line.path \o " on this server!", 404)

\* the way of a request through the application up to the controller: the
\* router mounted on its prefix, the router's protect, the route, the
\* route's protect. The result is the controller to run and the user
\* attached (none on a route without protect), or the error that goes to
\* the error middleware.
Admit(line, credential, getUserOk) ==
    LET matching == {r \in Routes : r.line = line}
        guard == protect(credential, getUserOk)
        route == CHOOSE r \in matching : TRUE
    IN IF line.mount \notin Mounts THEN [err |-> notFoundHandler(line)]
       ELSE IF line.mount \in ProtectedRouters /\ "err" \in DOMAIN guard THEN guard
       ELSE IF matching = {} THEN [err |-> notFoundHandler(line)]
       ELSE IF route.protect /\ "err" \in DOMAIN guard THEN guard
       ELSE [controller |-> route.controller,
             user |-> IF route.protect \/ line.mount \in ProtectedRouters
                      THEN guard.user ELSE "-"]

\* a request that no controller handles: the error middleware answers it
AppReject(line, credential, getUserOk) ==
    LET a == Admit(line, credential, getUserOk) IN
    /\ "err" \in DOMAIN a
    /\ UNCHANGED <<comments, profiles, nextId, clock, inflight, bookmarkVars>>
    /\ response' =
         Sent([NoResponse EXCEPT !.op = IF a.err.statusCode = 404 THEN "notFoundHandler"
                                        ELSE "protect",
                                 !.request = line, !.credential = credential,
                                 !.storeOk = ~(a.err.statusCode = 401 /\ credential # "none"
                                               /\ ~getUserOk)],
              next(a.err))

\* the request reaches the controller c with the user u attached
Reaches(line, credential, getUserOk, c, u) ==
    LET a == Admit(line, credential, getUserOk) IN
    /\ "controller" \in DOMAIN a
    /\ a.controller = c
    /\ a.user = u

\* ---------------------------------------------------------- specification
Init ==
    /\ comments = {}
    /\ profiles = {}
    /\ nextId = 1
    /\ clock = 0
    /\ inflight = [s \in Slots |-> Idle]
    /\ response = NoResponse
    /\ bookmarks = {}
    /\ nextBookmarkId = 1

Ticks == 0..MaxClock

\* the getComments requests the clients may send, on the mangas M; B holds
\* the outcomes of validation and of a store call (TRUE: passes)
ReadRequests(M, B) ==
    \E m \in M, h \in ChapterHids : \E f \in FetchOrders(m, h) :
       \E valid, fetchOk, profilesOk \in B :
          GetComments(m, h, f, valid, fetchOk, profilesOk)

\* a content that passes the route's checks as it is
SomeContent == Content(0, 1, 0)

\* the addComment and deleteComment requests: into the slots S, by the users
\* U, on the mangas M, with the store's clock reading a tick of T, a content
\* of C; P holds the outcomes of addComment's profile lookup
CommentRequests(S, U, M, T, C, B, P) ==
    \/ \E s \in S, u \in U, m \in M, h \in ChapterHids,
          p \in {NoParent} \cup CommentIds, t \in T, content \in C,
          valid, storeOk \in B, profileOk \in P :
         AddCommentStart(s, u, m, h, p, t, content, valid, storeOk, profileOk)
    \/ \E s \in S, t \in T, insertOk \in B, profileOk \in P :
         AddCommentResume(s, t, insertOk, profileOk)
    \/ \E s \in S, u \in U, id \in CommentIds, valid, storeOk \in B :
         DeleteCommentStart(s, u, id, valid, storeOk)
    \/ \E s \in S, deleteOk \in B : DeleteCommentResume(s, deleteOk)

\* the same with the content SomeContent and a profile lookup that succeeds
WriteRequests(S, U, M, T, B) == CommentRequests(S, U, M, T, {SomeContent}, B, {TRUE})

\* valid requests handled one at a time, on both chapters, with timestamps
\* of every tick, and a store whose calls succeed
NextThread ==
    \/ ReadRequests(Mangas, {TRUE})
    \/ WriteRequests({1}, {"u1"}, Mangas, Ticks, {TRUE})

SpecThread == Init /\ [][NextThread]_vars

\* concurrent requests of both users on one chapter; a request may be
\* invalid and a store call may fail
Next ==
    \/ ReadRequests({"m1"}, BOOLEAN)
    \/ WriteRequests(Slots, Users, {"m1"}, {0}, BOOLEAN)

Spec == Init /\ [][Next]_vars

\* the bookmark requests: into the slots S, by the users U, with a body of
\* Bodies, at a time of T
BookmarkRequests(S, U, Bodies, T, B) ==
    \/ \E s \in S, u \in U, body \in Bodies, valid \in B :
         \E username \in {Undefined, UsernameOf(u)} :
            AddBookmarkStart(s, u, body, valid, username)
    \/ \E s \in S, now \in T, upsertOk \in B : AddBookmarkResume(s, now, upsertOk)

\* addBookmark requests of one user, one at a time, with every body, at an
\* earlier or a later time
NextBookmarks == BookmarkRequests({1}, {"u1"}, BookmarkBodies, {0, MaxClock}, BOOLEAN)

SpecBookmarks == Init /\ [][NextBookmarks]_vars

\* concurrent addBookmark requests of one user; the bodies differ in the
\* manga only (and the calls in the username they send)
NextBookmarkRace ==
    BookmarkRequests(Slots, {"u1"},
                     {b \in BookmarkBodies : /\ b.manga_title = "t1"
                                             /\ b.last_read_chapter = Undefined
                                             /\ b.reading_status = Undefined},
                     {0}, BOOLEAN)

SpecBookmarkRace == Init /\ [][NextBookmarkRace]_vars

\* the updateProfile and uploadProfileImage requests: into the slots S, by
\* the users U, asking for a username of N
ProfileRequests(S, U, N, B) ==
    \/ \E s \in S, u \in U, username \in N, valid, checkOk \in B :
         UpdateProfileStart(s, u, username, valid, checkOk)
    \/ \E s \in S, u \in U, file, uploadOk, checkOk \in B :
         UploadProfileImageStart(s, u, file, uploadOk, checkOk)
    \/ \E s \in S, writeOk \in B : ProfileWriteResume(s, writeOk)

\* comments of both users on one chapter, one request at a time, while user
\* u1 creates and changes a profile; a profile lookup may fail
NextAuthors ==
    \/ ReadRequests({"m1"}, {TRUE})
    \/ CommentRequests({1}, Users, {"m1"}, {0}, {SomeContent}, {TRUE}, BOOLEAN)
    \/ ProfileRequests({1}, {"u1"}, {"alice"}, {TRUE})

SpecAuthors == Init /\ [][NextAuthors]_vars

\* the contents a client may send: with and without whitespace at the ends,
\* empty, of whitespace only, of the longest length and longer
Contents ==
    {Content(0, 0, 0), Content(1, 0, 1), Content(1, 1, 1), Content(0, 1, 0),
     Content(0, ContentMax, 1), Content(1, ContentMax + 1, 0)}

\* getComments, addComment and deleteComment requests of one user with
\* every content; a request may be invalid and a store call may fail
NextContent ==
    \/ ReadRequests({"m1"}, {TRUE})
    \/ CommentRequests({1}, {"u1"}, {"m1"}, {0}, Contents, BOOLEAN, {TRUE})

SpecContent == Init /\ [][NextContent]_vars

\* the requests a client may send to the application: every route of the
\* routers, and a path that is no route
RequestLines == {r.line : r \in Routes} \cup {Line("GET", "/api/nowhere", "/")}

\* the credentials the clients of the application present
AppCredentials == {"none", "Bearer unknown", TokenOf("u1")}

\* requests entering the application, one at a time: those that end in the
\* error middleware before a controller, and those that reach one of the
\* controllers login, register, getBookmarks, addBookmark (of one manga),
\* updateProfile and uploadProfileImage
NextApp ==
    \/ \E line \in RequestLines, credential \in AppCredentials, getUserOk \in BOOLEAN :
         AppReject(line, credential, getUserOk)
    \/ \E credential \in AppCredentials, valid \in BOOLEAN, answer \in LoginAnswers :
         /\ Reaches(Line("POST", "/api/auth", "/login"), credential, TRUE, "login", "-")
         /\ Login("u1", valid, answer)
    \/ \E credential \in AppCredentials, valid \in BOOLEAN, answer \in RegisterAnswers :
         /\ Reaches(Line("POST", "/api/auth", "/register"), credential, TRUE, "register", "-")
         /\ Register("u1", valid, answer)
    \/ \E credential \in AppCredentials, u \in Users, fetchOk \in BOOLEAN :
         /\ Reaches(Line("GET", "/api/bookmarks", "/"), credential, TRUE, "getBookmarks", u)
         /\ GetBookmarks(u, fetchOk)
    \/ \E credential \in AppCredentials, u \in Users, valid \in BOOLEAN,
          body \in {b \in BookmarkBodies : /\ b.manga_id = "m1" /\ b.manga_title = "t1"
                                             /\ b.last_read_chapter = Undefined
                                             /\ b.reading_status = Undefined} :
         /\ Reaches(Line("POST", "/api/bookmarks", "/"), credential, TRUE, "addBookmark", u)
         /\ AddBookmarkStart(1, u, body, valid, UsernameOf(u))
    \/ \E upsertOk \in BOOLEAN : AddBookmarkResume(1, 0, upsertOk)
    \/ \E credential \in AppCredentials, u \in Users, valid, checkOk \in BOOLEAN :
         /\ Reaches(Line("PUT", "/api/profile", "/"), credential, TRUE, "updateProfile", u)
         /\ UpdateProfileStart(1, u, "alice", valid, checkOk)
    \/ \E credential \in AppCredentials, u \in Users, file, uploadOk, checkOk \in BOOLEAN :
         /\ Reaches(Line("POST", "/api/profile", "/upload-image"), credential, TRUE,
                    "uploadProfileImage", u)
         /\ UploadProfileImageStart(1, u, file, uploadOk, checkOk)
    \/ \E writeOk \in BOOLEAN : ProfileWriteResume(1, writeOk)

SpecApp == Init /\ [][NextApp]_vars

\* the request bodies of the three update handlers that pass the checks of
\* their routes
UpdateBodies(o) ==
    CASE o = "updateBookmark" -> [last_read_chapter : {Undefined, "c2"}]
      [] o = "updateReadingProgress" -> [last_read_chapter : {"c2"}]
      [] o = "updateReadingStatus" -> [reading_status : {"reading", "completed"}]

UpdateHandlers == {"updateBookmark", "updateReadingProgress", "updateReadingStatus"}

\* the addBookmark bodies for the manga m, with and without a reading_status
BodiesOf(m) ==
    {b \in BookmarkBodies : /\ b.manga_id = m /\ b.manga_title = "t1"
                            /\ b.last_read_chapter = Undefined}

\* addBookmark requests while the store has ids to hand out
AddBookmarkRequests(S, U, Bodies, B) ==
    \/ \E s \in S, u \in U, body \in Bodies, valid \in B :
         /\ nextBookmarkId <= MaxBookmarks
         /\ AddBookmarkStart(s, u, body, valid, UsernameOf(u))
    \/ \E s \in S, upsertOk \in B : AddBookmarkResume(s, 0, upsertOk)

\* removeBookmark requests into the slots S
RemoveRequests(S, U, B) ==
    \/ \E s \in S, u \in U, id \in BookmarkIds, valid, storeOk \in B :
         RemoveBookmarkStart(s, u, id, valid, storeOk)
    \/ \E s \in S, deleteOk \in B : RemoveBookmarkResume(s, deleteOk)

\* the bookmark requests of both users on one manga, one request at a time;
\* a request may be invalid and a store call may fail
NextBookmarkOps ==
    \/ AddBookmarkRequests({1}, Users, BodiesOf("m1"), BOOLEAN)
    \/ \E o \in UpdateHandlers : \E u \in Users, id \in BookmarkIds, fields \in UpdateBodies(o),
          valid, storeOk \in BOOLEAN :
         /\ inflight[1] = Idle
         /\ UpdateBookmarkRow(o, u, id, fields, 0, valid, storeOk)
    \/ RemoveRequests({1}, Users, BOOLEAN)
    \/ \E u \in Users, m \in Mangas, valid, storeOk \in BOOLEAN :
         inflight[1] = Idle /\ CheckBookmark(u, m, valid, storeOk)
    \/ \E u \in Users, fetchOk \in BOOLEAN :
         inflight[1] = Idle /\ GetBookmarks(u, fetchOk)

SpecBookmarkOps == Init /\ [][NextBookmarkOps]_vars

\* concurrent removeBookmark requests and concurrent deleteComment requests
\* of one user, with the addBookmark and addComment requests that create the
\* rows; every request is valid and every store call succeeds
NextDeleteRace ==
    \/ AddBookmarkRequests(Slots, {"u1"}, BodiesOf("m1"), {TRUE})
    \/ RemoveRequests(Slots, {"u1"}, {TRUE})
    \/ CommentRequests(Slots, {"u1"}, {"m1"}, {0}, {SomeContent}, {TRUE}, {TRUE})

SpecDeleteRace == Init /\ [][NextDeleteRace]_vars

\* concurrent updateProfile and uploadProfileImage requests of one user;
\* every request is valid and every call of the store succeeds unless the
\* store has to refuse it
NextProfileRace == ProfileRequests(Slots, {"u1"}, Usernames, {TRUE})

SpecProfileRace == Init /\ [][NextProfileRace]_vars

\* requests of user u1 to handlers of every kind, in the slots S: to
\* protect, which ends with next(err) or lets the request go on to
\* addBookmark; to login and register; to updateProfile and
\* uploadProfileImage; to the comment handlers on one chapter. A request may
\* be invalid and a call of a hosted service may fail.
OutcomeRequests(S) ==
    \/ \E credential \in AppCredentials, getUserOk \in BOOLEAN :
         AppReject(Line("POST", "/api/bookmarks", "/"), credential, getUserOk)
    \/ \E s \in S, body \in {b \in BodiesOf("m1") : b.reading_status = Undefined},
          valid \in BOOLEAN :
         /\ Reaches(Line("POST", "/api/bookmarks", "/"), TokenOf("u1"), TRUE, "addBookmark", "u1")
         /\ AddBookmarkStart(s, "u1", body, valid, UsernameOf("u1"))
    \/ \E s \in S, upsertOk \in BOOLEAN : AddBookmarkResume(s, 0, upsertOk)
    \/ \E valid \in BOOLEAN, answer \in LoginAnswers : Login("u1", valid, answer)
    \/ \E valid \in BOOLEAN, answer \in RegisterAnswers : Register("u1", valid, answer)
    \/ ProfileRequests(S, {"u1"}, {"alice"}, BOOLEAN)
    \/ ReadRequests({"m1"}, BOOLEAN)
    \/ \E s \in S, p \in {NoParent} \cup CommentIds, valid, storeOk, profileOk \in BOOLEAN :
         /\ nextId + PendingInserts <= MaxThread
         /\ AddCommentStart(s, "u1", "m1", "h1", p, 0, SomeContent, valid, storeOk, profileOk)
    \/ \E s \in S, insertOk, profileOk \in BOOLEAN : AddCommentResume(s, 0, insertOk, profileOk)
    \/ \E s \in S, id \in CommentIds, valid, storeOk \in BOOLEAN :
         DeleteCommentStart(s, "u1", id, valid, storeOk)
    \/ \E s \in S, deleteOk \in BOOLEAN : DeleteCommentResume(s, deleteOk)

NextOutcomes == OutcomeRequests({1})

\* the call of the hosted service that the handler in slot s awaits returns
Returns(s) ==
    \/ \E insertOk, profileOk \in BOOLEAN : AddCommentResume(s, 0, insertOk, profileOk)
    \/ \E deleteOk \in BOOLEAN : DeleteCommentResume(s, deleteOk)
    \/ \E upsertOk \in BOOLEAN : AddBookmarkResume(s, 0, upsertOk)
    \/ \E writeOk \in BOOLEAN : ProfileWriteResume(s, writeOk)

\* every call of a hosted service returns
SpecOutcomes == Init /\ [][NextOutcomes]_vars /\ \A s \in Slots : WF_vars(Returns(s))

\* ================================================================ claims
Range(q) == {q[i] : i \in DOMAIN q}

\* getComments has just answered 200: the table is the one it read
GotThread == response.op = "getComments" /\ response.status = 200

\* the rows stored for the chapter the last getComments asked for
ChapterRows ==
    {c \in comments : c.manga_id = response.manga_id /\ c.chapter_hid = response.chapter_hid}

\* the ids at the top level of the output, and in the replies lists
TopIds == {response.data[i].id : i \in DOMAIN response.data}

ReplyIds ==
    UNION {{r.id : r \in Range(response.data[i].replies)} : i \in DOMAIN response.data}

\* C1: in the output of getComments every fetched comment without parent_id
\* is at the top level exactly once, the replies list of a top-level comment
\* holds exactly the fetched comments whose parent_id is its id, each once,
\* and an empty fetch yields an empty list.
C1_ThreadAssembly ==
    GotThread =>
      /\ \A c \in ChapterRows : c.parent_id = NoParent =>
            Cardinality({i \in DOMAIN response.data : response.data[i].id = c.id}) = 1
      /\ \A i \in DOMAIN response.data :
            LET rs == response.data[i].replies IN
            /\ Range(rs) = {c \in ChapterRows : c.parent_id = response.data[i].id}
            /\ \A k, l \in DOMAIN rs : k # l => rs[k] # rs[l]
      /\ ChapterRows = {} => response.data = <<>>

C1_Witness ==
    /\ GotThread
    /\ \E i \in DOMAIN response.data : Len(response.data[i].replies) = 2

C1_WitnessEmpty ==
    GotThread /\ ChapterRows = {} /\ comments # {} /\ response.data = <<>>

\* a fetched comment whose parent is a reply, or is not among the fetched rows
Orphaned(c) ==
    /\ c.parent_id # NoParent
    /\ \/ \A q \in ChapterRows : q.id # c.parent_id
       \/ \E q \in ChapterRows : q.id = c.parent_id /\ q.parent_id # NoParent

\* C2: a comment whose parent_id names a reply, or a comment that was not
\* fetched, is nowhere in the output of getComments: not at the top level
\* and in no replies list.
C2_OrphansDropped ==
    GotThread =>
      \A c \in ChapterRows : Orphaned(c) => c.id \notin TopIds /\ c.id \notin ReplyIds

C2_Witness ==
    /\ GotThread
    /\ \E c \in ChapterRows : \E q \in ChapterRows :
          q.id = c.parent_id /\ q.parent_id # NoParent
    /\ response.data # <<>>

\* the number of parent_id hops from c up to the comment with id a among the
\* fetched rows (0 when a is not above c); ids grow along a chain
RECURSIVE HopsUp(_, _)
HopsUp(c, a) ==
    IF c.parent_id = NoParent THEN 0
    ELSE IF c.parent_id = a THEN 1
    ELSE LET ps == {q \in ChapterRows : q.id = c.parent_id} IN
         IF ps = {} THEN 0
         ELSE LET h == HopsUp(CHOOSE q \in ps : TRUE, a) IN
              IF h = 0 THEN 0 ELSE h + 1

\* C3 as the spec states it: every stored comment any number of hops below
\* a top-level comment is in that comment's replies list.
C3_Flattened ==
    GotThread =>
      \A i \in DOMAIN response.data : \A c \in ChapterRows :
         HopsUp(c, response.data[i].id) >= 1 =>
            c.id \in {r.id : r \in Range(response.data[i].replies)}

\* C3, amended: a replies list holds the comments exactly one hop below its
\* top-level comment; a comment two or more hops below a top-level comment
\* is not flattened into any replies list and is nowhere in the output.
C3_OneLevelOnly ==
    GotThread =>
      \A i \in DOMAIN response.data : \A c \in ChapterRows :
         LET n == HopsUp(c, response.data[i].id) IN
         /\ n = 1 => c.id \in {r.id : r \in Range(response.data[i].replies)}
         /\ n >= 2 => c.id \notin ReplyIds /\ c.id \notin TopIds

C3_Witness ==
    /\ GotThread
    /\ \E i \in DOMAIN response.data : \E c, d \in ChapterRows :
          HopsUp(c, response.data[i].id) = 1 /\ HopsUp(d, response.data[i].id) = 2

\* the place of comment id in the fetched rows
FetchPos(id) == CHOOSE k \in DOMAIN response.fetched : response.fetched[k].id = id

\* C4: every replies list is in non-decreasing created_at order, and replies
\* with equal created_at keep the order they had before the sort.
C4_RepliesAscending ==
    GotThread =>
      \A i \in DOMAIN response.data :
         LET rs == response.data[i].replies IN
         \A k, l \in DOMAIN rs : k < l =>
            /\ rs[k].created_at <= rs[l].created_at
            /\ rs[k].created_at = rs[l].created_at => FetchPos(rs[k].id) < FetchPos(rs[l].id)

\* C5: the top-level comments of the output are in descending created_at
\* order and in the order in which the store returned them.
C5_TopLevelFetchOrder ==
    GotThread =>
      \A i, j \in DOMAIN response.data : i < j =>
         /\ response.data[i].created_at >= response.data[j].created_at
         /\ FetchPos(response.data[i].id) < FetchPos(response.data[j].id)

\* the spec's example: two top-level comments, the newer one first with its
\* one reply (the newest row), the older one with none
C5_Witness ==
    /\ GotThread
    /\ Len(response.data) = 2
    /\ Len(response.fetched) = 3
    /\ Len(response.data[1].replies) = 1
    /\ response.data[2].replies = <<>>
    /\ response.data[1].created_at > response.data[2].created_at
    /\ response.data[1].replies[1].created_at > response.data[1].created_at

\* ------------------------------------------------ deleteComment, addComment
\* the step just taken was the first step of the request that was answered
\* (the handler ran from its start to the response)
AnsweredAtStart == inflight[response'.slot] = Idle

\* C6: a deleteComment whose caller is not the comment's author is answered
\* 403 (when the request is valid and the lookup returns the row) and leaves
\* the table as it was; a row leaves the table only in a step of a
\* deleteComment request of the row's own author for that row's id.
C6_DeleteOnlyByAuthor ==
    [][ /\ ( /\ response'.op = "deleteComment"
             /\ \E row \in RowById(response'.ref) : row.user_id # response'.user_id )
          => /\ comments' = comments
             /\ response'.status \in {400, 403, 404}
             /\ (response'.status # 400 /\ response'.storeOk) => response'.status = 403
        /\ \A row \in comments \ comments' :
             /\ response'.op = "deleteComment" /\ response'.status = 200
             /\ response'.ref = row.id /\ response'.user_id = row.user_id
      ]_vars

C6_Witness ==
    /\ response.op = "deleteComment" /\ response.status = 403
    /\ \E row \in RowById(response.ref) : row.user_id # response.user_id
    /\ Cardinality(comments) = 2

\* C7: an addComment whose parent_id names no comment present at the lookup
\* is answered 404 and inserts nothing: the handler goes on to its insert
\* only when the lookup found the parent, and a request with a parent_id
\* that is answered at the lookup is answered 400 or 404 with the table
\* unchanged, 404 whenever it is valid and the parent is missing.
C7_MissingParentRejected ==
    [][ /\ \A s \in Slots :
             (inflight[s] = Idle /\ inflight'[s].op = "addComment")
               => RowById(inflight'[s].ref) # {}
        /\ ( /\ response'.op = "addComment"
             /\ AnsweredAtStart
             /\ response'.ref # NoParent )
           => /\ response'.status \in {400, 404}
              /\ comments' = comments /\ nextId' = nextId
              /\ (response'.status # 400 /\ RowById(response'.ref) = {})
                    => response'.status = 404
      ]_vars

C7_Witness ==
    /\ response.op = "addComment" /\ response.status = 404 /\ response.storeOk
    /\ RowById(response.ref) = {}
    /\ comments # {}

\* C8: whenever addComment has inserted a comment with a parent_id, the
\* parent is in the table at that moment.
C8_ParentExistsAtInsert ==
    (response.op = "addComment" /\ response.status = 201 /\ response.ref # NoParent)
      => RowById(response.ref) # {}

\* -------------------------------------------------------------- addBookmark
\* addBookmark has just answered 201 for a pair that had a row before the step
ReAdded ==
    /\ response'.op = "addBookmark" /\ response'.status = 201
    /\ Pair(response'.user_id, response'.manga_id) # {}

\* the rows of the answered pair after the step
PairAfter == {b \in bookmarks' : b.user_id = response'.user_id /\ b.manga_id = response'.manga_id}

\* the columns of a bookmark row that addBookmark may send
BookmarkColumns ==
    {"user_id", "username", "manga_id", "manga_title", "last_read_chapter",
     "reading_status", "last_read_at"}

\* C9 as the spec states it: after the second addBookmark for a pair there
\* is one row for it, and the row is the second call's data: each column has
\* the second call's value and a column the second call has no value for
\* has none.
C9_SecondCallReplaces ==
    [][ ReAdded =>
          /\ Cardinality(PairAfter) = 1
          /\ \A row \in PairAfter : \A f \in BookmarkColumns :
                IF f \in DOMAIN response'.payload
                THEN f \in DOMAIN row /\ row[f] = response'.payload[f]
                ELSE f \notin DOMAIN row
      ]_vars

\* C9, amended: after the second addBookmark for a pair there is one row for
\* it, the row that was there (same id); every column the second call sends
\* has the second call's value, and a column it does not send (an optional
\* field absent from the request, a username the lookup did not give) keeps
\* the value it had.
C9_SecondCallOverwritesSentFields ==
    [][ ReAdded =>
          /\ Cardinality(PairAfter) = 1
          /\ \A row \in PairAfter : \A old \in Pair(response'.user_id, response'.manga_id) :
                /\ row.id = old.id
                /\ DOMAIN row = DOMAIN old \cup DOMAIN response'.payload
                /\ \A f \in DOMAIN row :
                      row[f] = IF f \in DOMAIN response'.payload
                               THEN response'.payload[f] ELSE old[f]
      ]_vars

\* a second call that changed the title and the reading status
C9_Witness ==
    /\ response.op = "addBookmark" /\ response.status = 201
    /\ nextBookmarkId = 2
    /\ \E row \in bookmarks :
          /\ row.manga_title = "t2" /\ row.reading_status = "plan_to_read"
          /\ "last_read_chapter" \in DOMAIN row
          /\ "last_read_chapter" \notin DOMAIN response.payload
          /\ response.payload.manga_title = "t2"

\* C10: whatever the interleaving of concurrent addBookmark requests, no
\* pair ever has two rows and an answered pair has exactly one; the table
\* changes only in the step that makes a request's one upsert call and ends
\* the request, and nothing keeps two requests for one pair from being in
\* flight together.
C10_OneRowPerPair ==
    [][ /\ \A b1, b2 \in bookmarks' :
             (b1.user_id = b2.user_id /\ b1.manga_id = b2.manga_id) => b1 = b2
        /\ (response'.op = "addBookmark" /\ response'.status = 201)
             => Cardinality(PairAfter) = 1
        /\ bookmarks' # bookmarks =>
             /\ response'.op = "addBookmark"
             /\ inflight[response'.slot].op = "addBookmark"
             /\ inflight'[response'.slot] = Idle
        /\ \A s \in Slots : \A u \in Users, b \in BookmarkBodies :
             (FreeSlot(s) /\ \E o \in Slots : inflight[o].op = "addBookmark"
                                                     /\ inflight[o].user_id = u
                                                     /\ inflight[o].manga_id = b.manga_id)
               => ENABLED AddBookmarkStart(s, u, b, TRUE, Undefined)
      ]_vars

\* a request's upsert was answered while another request for the same pair,
\* started before it, is still in flight; the pair's row had been written by
\* an earlier request (it has a username, which this call did not send)
C10_Witness ==
    /\ response.op = "addBookmark" /\ response.status = 201
    /\ \E s \in Slots : /\ inflight[s].op = "addBookmark"
                        /\ inflight[s].user_id = response.user_id
                        /\ inflight[s].manga_id = response.manga_id
    /\ Cardinality(bookmarks) = 1
    /\ "username" \notin DOMAIN response.payload
    /\ \E row \in bookmarks : "username" \in DOMAIN row

\* ------------------------------------------------------------ error responses
\* a response with an error status was sent
ErrorSent == response.op # "none" /\ response.status >= 400

\* the body is {success: false, error: {message, ...}}
Normalized(b) ==
    /\ DOMAIN b = {"success", "error"}
    /\ b.success = FALSE
    /\ b.error.type = "object"
    /\ "message" \in DOMAIN b.error

\* C11: every error response has the envelope {success: false, error:
\* {message, ...}}, with the message inside the error object.
C11_NormalizedEnvelope == ErrorSent => Normalized(response.body)

\* the checks of the request failed: the message of the body says so
ValidationFailed ==
    LET b == response.body
    IN \/ "message" \in DOMAIN b /\ b.message = "Validation failed"
       \/ /\ "error" \in DOMAIN b /\ b.error.type = "object"
          /\ b.error.message \in {"Validation error", "No file uploaded"}

\* C12: an error response has status 400 only when the request failed
\* validation, and the response of a handler whose call of the hosted store
\* failed has status 500.
C12_StatusFromKind ==
    (ErrorSent /\ response.op \notin {"protect", "notFoundHandler"}) =>
       /\ response.status = 400 => ValidationFailed
       /\ ~response.storeOk => response.status = 500

\* C13: when a call of the hosted service made during a request fails, the
\* response of the request is an error response.
C13_FailureSurfaced ==
    (response.op # "none" /\ ~response.storeOk) => response.status >= 400

\* the texts a body carries as message or error
BodyTexts(b) ==
    (IF "message" \in DOMAIN b THEN {b.message} ELSE {})
    \cup (IF "error" \in DOMAIN b
          THEN IF b.error.type = "string" THEN {b.error.value} ELSE {b.error.message}
          ELSE {})

\* C14: no response body carries the hosted service's own error message.
C14_NoProviderMessage ==
    response.op # "none" => ProviderMessage \notin BodyTexts(response.body)

\* the auth provider answered login's call with an error
LoginRejected == response.op = "login" /\ response.payload # <<>>

AuthRequired ==
    {l \in RequestLines :
       \/ l.mount \in {"/api/bookmarks", "/api/profile"}
       \/ l.mount = "/api/comments" /\ l.method \in {"POST", "DELETE"}}

\* C16: a request on a route that requires auth whose credential is missing
\* or is not verified is answered 401 by protect, before any controller.
C16_ProtectBeforeController ==
    ( /\ response.request \in AuthRequired
      /\ \/ response.credential \notin {TokenOf(u) : u \in Users}
         \/ ~response.storeOk )
      => response.op = "protect" /\ response.status = 401

\* C17: a request to one of the three comment endpoints is dispatched to
\* its controller, not to the not-found handler.
C17_CommentsServed ==
    response.request.mount = "/api/comments" => response.op # "notFoundHandler"

\* ------------------------------------------------------ author display fields
\* the display fields the claim gives user u: those of u's profile, or the
\* defaults when u has none
ClaimedFields(u) ==
    IF ProfileOf(u) = {} THEN [username |-> "Anonymous", avatar_url |-> Null]
    ELSE LET q == CHOOSE q \in ProfileOf(u) : TRUE
         IN [username |-> q.username, avatar_url |-> q.avatar_url]

\* C18: in the output of getComments and in the response of addComment a
\* comment carries the username and avatar_url of its author's profile, and
\* "Anonymous" and null when the author has no profile.
C18_AuthorFields ==
    (response.op \in {"getComments", "addComment"} /\ response.status \in {200, 201}) =>
       \A i \in DOMAIN response.authors :
          LET a == response.authors[i]
          IN /\ a.username = ClaimedFields(a.user_id).username
             /\ a.avatar_url = ClaimedFields(a.user_id).avatar_url

\* ------------------------------------------------------------------- content
\* C19: every stored comment's content has no whitespace at its ends and a
\* length between 1 and 1000.
C19_ContentTrimmedAndBounded ==
    \A c \in comments :
       /\ c.content.lead = 0 /\ c.content.trail = 0
       /\ length(c.content) >= 1 /\ length(c.content) <= 1000

\* a stored content of the longest length, sent with whitespace after it,
\* next to one of length 1, sent with whitespace around it
C19_Witness ==
    /\ \E c \in comments : c.content = Content(0, 1000, 0)
    /\ \E c \in comments : c.content = Content(0, 1, 0)
    /\ response.op = "addComment" /\ response.status = 201

\* C20: no step changes a field of a comment row that is in the table before
\* and after the step (ids are never given twice, so the id names the row).
C20_NoUpdateInPlace ==
    [][ \A c \in comments : \A d \in comments' : c.id = d.id => c = d ]_vars

\* an addComment and a deleteComment each ran with another row in the table
C20_Witness ==
    /\ response.op = "deleteComment" /\ response.status = 200
    /\ comments # {}
    /\ nextId > 2

\* ------------------------------------------------------------ checkBookmark
\* checkBookmark has just answered a request that passed the checks
Checked == response.op = "checkBookmark" /\ response.payload # <<>>

\* C21: when the store answers checkBookmark's select with the not-found
\* code PGRST116 the response is 200 with isBookmarked false and
\* bookmarkData null; an error of another code gives an error response; and
\* isBookmarked is true exactly when a row is stored for (caller, manga_id).
C21_NotFoundIsNotAnError ==
    Checked =>
      /\ response.payload.error = "PGRST116" =>
            /\ response.status = 200
            /\ response.body.isBookmarked = FALSE
            /\ response.body.bookmarkData = JsonNull
      /\ response.payload.error = "other" =>
            response.status >= 400 /\ response.body.success = FALSE
      /\ response.status = 200 =>
            (response.body.isBookmarked <=> Pair(response.user_id, response.manga_id) # {})

C21_Witness ==
    /\ Checked /\ response.status = 200
    /\ response.payload.error = "PGRST116"
    /\ ~response.body.isBookmarked
    /\ \E b \in bookmarks : b.manga_id = response.manga_id /\ b.user_id # response.user_id

\* -------------------------------------------- visibility of stored comments
\* a stored comment of the chapter that is top-level, or whose parent is a
\* stored top-level comment of the same chapter
Direct(c) ==
    \/ c.parent_id = NoParent
    \/ \E q \in ChapterRows : q.id = c.parent_id /\ q.parent_id = NoParent

\* C22 as stated: every stored comment of the chapter (added with 201 and
\* not deleted) is at the top level or in a replies list of the getComments
\* output, whatever its parent is.
C22_AllVisible ==
    GotThread => \A c \in ChapterRows : c.id \in TopIds \cup ReplyIds

\* C22, amended: a stored comment is in the getComments output of its
\* chapter exactly when it is top-level or its parent is a stored top-level
\* comment of the same chapter; a comment whose parent is a reply, belongs
\* to another manga or chapter, or was deleted, is nowhere in the output.
C22_VisibleWhenDirect ==
    GotThread => \A c \in ChapterRows : (c.id \in TopIds \cup ReplyIds) <=> Direct(c)

C22_Witness ==
    /\ GotThread
    /\ TopIds # {}
    /\ \E c \in ChapterRows :
          /\ \E q \in RowById(c.parent_id) : q.manga_id # c.manga_id
          /\ c.id \notin TopIds \cup ReplyIds

\* ------------------------------------------------- deleteComment: the frame
\* C23: a deleteComment answered 200 removes the row with the given id and
\* leaves every other row as it was, the replies that name the deleted
\* comment included; a stored reply whose parent is no longer stored is
\* nowhere in a getComments output.
C23_DeleteLeavesReplies ==
    [][ /\ (response'.op = "deleteComment" /\ response'.status = 200)
             => comments' = comments \ RowById(response'.ref)
        /\ GotThread' =>
             \A c \in ChapterRows' :
                (c.parent_id # NoParent /\ (\A q \in comments' : q.id # c.parent_id))
                  => c.id \notin (TopIds \cup ReplyIds)'
      ]_vars

C23_Witness ==
    /\ response.op = "deleteComment" /\ response.status = 200
    /\ RowById(response.ref) = {}
    /\ \E c \in comments : c.parent_id = response.ref

\* C24: a 404 of deleteComment, or of addComment's parent check, says that
\* the comment the request names is not in the store; a lookup that failed
\* for another reason is not answered 404.
C24_NotFoundMeansAbsent ==
    (response.op \in {"deleteComment", "addComment"} /\ response.status = 404)
      => RowById(response.ref) = {}

\* ------------------------------------------------------ bookmark isolation
\* the handlers that name a bookmark by its id
ById == UpdateHandlers \cup {"removeBookmark"}

\* C25: a bookmark request of user u reads, updates and deletes rows of u
\* only: every row a step changes, removes or creates, every row
\* getBookmarks returns and every row a filtered call matches has the
\* caller's user_id.
C25_BookmarkIsolation ==
    [][ /\ \A b \in (bookmarks \ bookmarks') \cup (bookmarks' \ bookmarks) :
             b.user_id = response'.user_id
        /\ (response'.op = "getBookmarks" /\ response'.status = 200)
             => \A b \in response'.payload[1] : b.user_id = response'.user_id
        /\ (response'.op \in ById \cup {"checkBookmark"} /\ response'.payload # <<>>)
             => \A b \in response'.payload.matched : b.user_id = response'.user_id
      ]_vars

\* a request of one user that names the stored bookmark of the other
C25_Witness ==
    /\ response.op \in ById /\ response.payload # <<>>
    /\ response.payload.error = "PGRST116"
    /\ \E b \in bookmarks : b.id = response.ref /\ b.user_id # response.user_id

\* C26: updateBookmark, updateReadingProgress and updateReadingStatus answer
\* 404 "Bookmark not found" when their call succeeds and no row matches
\* (id, caller); the table is then as it was.
C26_MissingRowIsNotFound ==
    [][ ( /\ response'.op \in UpdateHandlers
          /\ response'.payload # <<>>
          /\ response'.storeOk
          /\ response'.payload.matched = {} )
        => /\ response'.status = 404
           /\ response'.body.message = "Bookmark not found"
           /\ bookmarks' = bookmarks
      ]_vars

\* -------------------------------------------------------- concurrent deletes
\* C27: with concurrent removeBookmark requests, and with concurrent
\* deleteComment requests, for the same row, a request is answered 200 only
\* if its own delete call removed the row.
C27_SuccessMeansRemoved ==
    [][ /\ (response'.op = "removeBookmark" /\ response'.status = 200)
             => \E b \in bookmarks \ bookmarks' : b.id = response'.ref
        /\ (response'.op = "deleteComment" /\ response'.status = 200)
             => \E c \in comments \ comments' : c.id = response'.ref
      ]_vars

\* ----------------------------------------------- concurrent profile creation
\* C28: concurrent updateProfile (or uploadProfileImage) requests of a user
\* are all answered 200, also when the user had no profile row at their
\* checks, and the user has exactly one profile row afterwards.
C28_BothCreatesSucceed ==
    response.op \in {"updateProfile", "uploadProfileImage"}
      => /\ response.status = 200
         /\ Cardinality(ProfileOf(response.user_id)) = 1

\* ------------------------------------------- addBookmark and reading_status
\* the reading statuses an addBookmark request stores: the ones the bodies
\* carry and the default
AddedStatuses == {b.reading_status : b \in BookmarkBodies} \cup {"plan_to_read"}

\* C29: an addBookmark without reading_status for a pair that has a row
\* leaves the row's reading_status as updateReadingStatus set it.
C29_ReAddKeepsStatus ==
    [][ ( /\ response'.op = "addBookmark" /\ response'.status = 201
          /\ inflight[response'.slot].body.reading_status = Undefined )
        => \A old \in Pair(response'.user_id, response'.manga_id) :
              old.reading_status \notin AddedStatuses
                => \A new \in bookmarks' :
                      new.id = old.id => new.reading_status = old.reading_status
      ]_vars

\* ------------------------------------------------- one outcome per invocation
\* the response r is one outcome: a status and a body were sent
Outcome(r) == r.status # 0 /\ r.body # NoBody

====
